---- MODULE Spec2Model ----
(***************************************************************************)
(* Model of the sysfs-led crate: the Brightness conversions, the colour    *)
(* conversions of colors.rs, the single-channel SysfsLed device, the       *)
(* composite SysfsRgbLed device and the "none" trigger.                    *)
(*                                                                         *)
(* A u32 is a pair <<hi, lo>> of 16-bit limbs, so that values up to        *)
(* 2^32-1 are represented exactly; u8 and u16 values are plain integers.   *)
(* File contents are sequences of one-character strings.                   *)
(***************************************************************************)
EXTENDS Integers, Sequences, FiniteSets, TLC

VARIABLES kind, data, handles, last, call, ret

vars == <<kind, data, handles, last, call, ret>>

----------------------------------------------------------------------------
(* u32 arithmetic on 16-bit limbs *)

Limb == 65536

U32(n) == <<n \div Limb, n % Limb>>

U32_MAX == <<Limb - 1, Limb - 1>>

U32_ZERO == <<0, 0>>

\* a < b on limb pairs (lo is always normalised below Limb)
u32_lt(a, b) == a[1] < b[1] \/ (a[1] = b[1] /\ a[2] < b[2])

u32_le(a, b) == a = b \/ u32_lt(a, b)

\* std::cmp::min on u32
cmp_min(a, b) == IF u32_le(a, b) THEN a ELSE b

\* a - b for b <= a
u32_sub(a, b) ==
    IF a[2] >= b[2] THEN <<a[1] - b[1], a[2] - b[2]>>
    ELSE <<a[1] - b[1] - 1, a[2] + Limb - b[2]>>

\* 2*a + bit; the high limb may exceed 16 bits (used only inside division)
u32_shl1(a, bit) ==
    LET lo == 2 * a[2] + bit
    IN  <<2 * a[1] + lo \div Limb, lo % Limb>>

\* bit i (0..31) of a
u32_bit(a, i) ==
    IF i >= 16 THEN (a[1] \div (2 ^ (i - 16))) % 2 ELSE (a[2] \div (2 ^ i)) % 2

\* the exact product of x (any u32) and a 16-bit y, or overflow
mul_small(x, y) ==
    LET y1 == y \div 256
        y0 == y % 256
        t1 == x[2] * y1
        t0 == x[2] * y0
        losum == (t1 % 256) * 256 + t0
        lowcarry == t1 \div 256 + losum \div Limb
    IN  IF y = 0 THEN [overflow |-> FALSE, value |-> U32_ZERO]
        ELSE IF x[1] > (Limb - 1) \div y
             THEN [overflow |-> TRUE, value |-> U32_MAX]
        ELSE IF x[1] * y + lowcarry > Limb - 1
             THEN [overflow |-> TRUE, value |-> U32_MAX]
        ELSE [overflow |-> FALSE,
              value |-> <<x[1] * y + lowcarry, losum % Limb>>]

\* u32::checked_mul as a record: overflow, or the product
checked_mul(a, b) ==
    IF a[1] = 0 /\ b[1] = 0 /\ a[2] < Limb \div 2
    THEN [overflow |-> FALSE, value |-> U32(a[2] * b[2])]
    ELSE IF a[1] > 0 /\ b[1] > 0 THEN [overflow |-> TRUE, value |-> U32_MAX]
    ELSE IF b[1] = 0 THEN mul_small(a, b[2])
    ELSE mul_small(b, a[2])

\* u32::saturating_mul
saturating_mul(a, b) == checked_mul(a, b).value

\* u32::checked_add
checked_add(a, b) ==
    LET lo == a[2] + b[2]
        hi == a[1] + b[1] + lo \div Limb
    IN  IF hi > Limb - 1 THEN [overflow |-> TRUE, value |-> U32_MAX]
        ELSE [overflow |-> FALSE, value |-> <<hi, lo % Limb>>]

\* restoring long division, one bit per step from bit i down to bit 0;
\* qr = <<quotient so far, remainder so far>>
RECURSIVE divmod_from(_, _, _, _)
divmod_from(a, b, i, qr) ==
    IF i < 0 THEN qr
    ELSE LET r2 == u32_shl1(qr[2], u32_bit(a, i))
             q2 == u32_shl1(qr[1], 0)
         IN  IF u32_le(b, r2)
             THEN divmod_from(a, b, i - 1, <<u32_shl1(qr[1], 1), u32_sub(r2, b)>>)
             ELSE divmod_from(a, b, i - 1, <<q2, r2>>)

\* a value below 2^31 fits in one integer of the checker
fits_int(a) == a[1] < Limb \div 2

as_int(a) == a[1] * Limb + a[2]

\* a / b and a % b for b # 0 (directly when both operands fit in an integer)
u32_div(a, b) ==
    IF fits_int(a) /\ fits_int(b) THEN U32(as_int(a) \div as_int(b))
    ELSE divmod_from(a, b, 31, <<U32_ZERO, U32_ZERO>>)[1]

u32_rem(a, b) ==
    IF fits_int(a) /\ fits_int(b) THEN U32(as_int(a) % as_int(b))
    ELSE divmod_from(a, b, 31, <<U32_ZERO, U32_ZERO>>)[2]

----------------------------------------------------------------------------
(* lib.rs: Brightness *)

Full == [tag |-> "Full"]

Off == [tag |-> "Off"]

Percent(p) == [tag |-> "Percent", v |-> p]

Absolute(a) == [tag |-> "Absolute", v |-> a]

\* Brightness::to_absolute
to_absolute(b, max_brightness) ==
    CASE b.tag = "Full" -> max_brightness
      [] b.tag = "Off" -> U32_ZERO
      [] b.tag = "Percent" ->
            u32_div(saturating_mul(max_brightness, cmp_min(b.v, U32(100))), U32(100))
      [] b.tag = "Absolute" -> cmp_min(max_brightness, b.v)

\* to_percent with the Absolute quotient rounded up instead of down
to_percent_round_up(b, max_brightness) ==
    CASE b.tag = "Full" -> [panic |-> FALSE, value |-> max_brightness]
      [] b.tag = "Off" -> [panic |-> FALSE, value |-> U32_ZERO]
      [] b.tag = "Percent" -> [panic |-> FALSE, value |-> cmp_min(b.v, U32(100))]
      [] b.tag = "Absolute" ->
            IF max_brightness = U32_ZERO
            THEN [panic |-> TRUE, value |-> U32_ZERO]
            ELSE [panic |-> FALSE,
                  value |-> u32_div(
                      checked_add(saturating_mul(cmp_min(b.v, max_brightness), U32(100)),
                                  u32_sub(max_brightness, U32(1))).value,
                      max_brightness)]

\* Brightness::to_percent; the integer division panics on a zero divisor
to_percent(b, max_brightness) ==
    CASE b.tag = "Full" -> [panic |-> FALSE, value |-> max_brightness]
      [] b.tag = "Off" -> [panic |-> FALSE, value |-> U32_ZERO]
      [] b.tag = "Percent" -> [panic |-> FALSE, value |-> cmp_min(b.v, U32(100))]
      [] b.tag = "Absolute" ->
            IF max_brightness = U32_ZERO
            THEN [panic |-> TRUE, value |-> U32_ZERO]
            ELSE [panic |-> FALSE,
                  value |-> u32_div(saturating_mul(cmp_min(b.v, max_brightness), U32(100)),
                                    max_brightness)]

----------------------------------------------------------------------------
(* decimal text of a u32: format!("{}", n) and str::parse::<u32>() *)

Digits == <<"0", "1", "2", "3", "4", "5", "6", "7", "8", "9">>

\* char::to_digit(10): the value of a decimal digit, -1 for any other character
DigitValue(c) ==
    CASE c = "0" -> 0 [] c = "1" -> 1 [] c = "2" -> 2 [] c = "3" -> 3 [] c = "4" -> 4
      [] c = "5" -> 5 [] c = "6" -> 6 [] c = "7" -> 7 [] c = "8" -> 8 [] c = "9" -> 9
      [] OTHER -> -1

IsDigit(c) == DigitValue(c) >= 0

Whitespace == {" ", "\n", "\t"}

\* format!("{}", n) for a u32 n: decimal, no sign, no padding
RECURSIVE format_u32(_)
format_u32(n) ==
    IF n[1] = 0 /\ n[2] < 10 THEN <<Digits[n[2] + 1]>>
    ELSE Append(format_u32(u32_div(n, <<0, 10>>)), Digits[u32_rem(n, <<0, 10>>)[2] + 1])

\* str::trim
RECURSIVE trim_start(_)
trim_start(s) ==
    IF s # <<>> /\ Head(s) \in Whitespace THEN trim_start(Tail(s)) ELSE s

RECURSIVE trim_end(_)
trim_end(s) ==
    IF s # <<>> /\ s[Len(s)] \in Whitespace THEN trim_end(SubSeq(s, 1, Len(s) - 1)) ELSE s

trim(s) == trim_end(trim_start(s))

ParseFailed == [ok |-> FALSE, value |-> U32_ZERO]

RECURSIVE parse_digits(_, _)
\* the accumulator times ten is m; add the digit dv and go on with rest
parse_add(rest, m, dv) ==
    IF m.overflow \/ checked_add(m.value, <<0, dv>>).overflow THEN ParseFailed
    ELSE parse_digits(rest, checked_add(m.value, <<0, dv>>).value)

\* the digits of s accumulated onto acc, failing on a non-digit or on overflow
parse_digits(s, acc) ==
    IF s = <<>> THEN [ok |-> TRUE, value |-> acc]
    ELSE IF ~IsDigit(Head(s)) THEN ParseFailed
    ELSE parse_add(Tail(s), checked_mul(acc, <<0, 10>>), DigitValue(Head(s)))

\* str::parse::<u32>(): an optional "+", then one or more digits
parse_u32(s) ==
    LET body == IF s # <<>> /\ Head(s) = "+" THEN Tail(s) ELSE s
    IN  IF body = <<>> THEN ParseFailed
        ELSE parse_digits(body, U32_ZERO)

----------------------------------------------------------------------------
(* the files of the LED class devices *)

\* a path is the sequence of its components, "/" first when it is absolute
SYSFS_LED_CLASS == <<"/", "sys", "class", "leds">>

\* Path::join: an absolute argument replaces the base
join(base, p) == IF p # <<>> /\ p[1] = "/" THEN p ELSE base \o p

RedName == <<"redLed">>

GreenName == <<"grnLed">>

BlueName == <<"bluLed">>

Names == {RedName, GreenName, BlueName}

RedPath == join(SYSFS_LED_CLASS, RedName)

GreenPath == join(SYSFS_LED_CLASS, GreenName)

BluePath == join(SYSFS_LED_CLASS, BlueName)

Paths == {RedPath, GreenPath, BluePath}

\* the files require_device_files asks for
RequiredFiles == <<"brightness", "max_brightness", "trigger">>

Attrs == {RequiredFiles[i] : i \in 1..Len(RequiredFiles)}

\* what a directory entry can be
Kinds == {"file", "dir", "missing"}

AllFiles == [p \in Paths |-> [a \in Attrs |-> "file"]]

NoData == [p \in Paths |-> [a \in Attrs |-> <<>>]]

NoLast == [op |-> "init"]

NoCall == [fn |-> "none", pc |-> "idle"]

NoRet == [panic |-> FALSE, value |-> U32_ZERO]

----------------------------------------------------------------------------
(* the Brightness conversions applied to inputs drawn at Init *)

SmallMax == 3

\* the payloads and maxima of the test vectors of lib.rs
TestValues == {0, 50, 72, 100, 128, 129, 150, 255}

\* u32 values around the point where max * 100 stops fitting in 32 bits
LargeValues == {<<655, 23592>>, <<655, 23593>>, <<Limb - 1, Limb - 2>>, U32_MAX}

U32Inputs == {U32(n) : n \in 0..SmallMax} \cup {U32(n) : n \in TestValues} \cup LargeValues

BrightnessInputs ==
    {Full, Off} \cup {Percent(p) : p \in U32Inputs} \cup {Absolute(a) : a \in U32Inputs}

InitBrightness ==
    /\ kind = AllFiles
    /\ data = NoData
    /\ handles = {}
    /\ last = NoLast
    /\ call \in [fn : {"to_absolute", "to_percent"}, pc : {"call"},
                 b : BrightnessInputs, max : U32Inputs]
    /\ ret = NoRet

CallToAbsolute ==
    /\ call.pc = "call"
    /\ call.fn = "to_absolute"
    /\ ret' = [panic |-> FALSE, value |-> to_absolute(call.b, call.max)]
    /\ call' = [call EXCEPT !.pc = "done"]
    /\ UNCHANGED <<kind, data, handles, last>>

CallToPercent ==
    /\ call.pc = "call"
    /\ call.fn = "to_percent"
    /\ ret' = to_percent(call.b, call.max)
    /\ call' = [call EXCEPT !.pc = "done"]
    /\ UNCHANGED <<kind, data, handles, last>>

NextBrightness == CallToAbsolute \/ CallToPercent

SpecBrightness == InitBrightness /\ [][NextBrightness]_vars

----------------------------------------------------------------------------
(* claims about the Brightness conversions, under SpecBrightness *)

ToAbsoluteDone == call.pc = "done" /\ call.fn = "to_absolute"

ToPercentDone == call.pc = "done" /\ call.fn = "to_percent"

\* the largest max for which max * 100 fits in 32 bits: 42949672
MulSafeMax == <<655, 23592>>

\* C3: for any 32-bit max and any a, to_absolute(Off, max) = 0,
\* to_absolute(Full, max) = max, to_absolute(Percent(150), max) = max and
\* to_absolute(Absolute(a), max) = min(a, max).
C3_ToAbsoluteTable ==
    ToAbsoluteDone =>
        /\ call.b = Off => ret.value = U32_ZERO
        /\ call.b = Full => ret.value = call.max
        /\ call.b = Percent(U32(150)) => ret.value = call.max
        /\ call.b.tag = "Absolute" =>
              ret.value = IF u32_lt(call.b.v, call.max) THEN call.b.v ELSE call.max

\* the value the conversion back from the returned percentage yields
BackToAbsolute == to_absolute(Percent(ret.value), call.max)

RoundTripCase ==
    /\ ToPercentDone
    /\ call.max # U32_ZERO
    /\ call.b.tag = "Absolute" => u32_le(call.b.v, call.max)
    /\ call.b.tag # "Percent"

\* what the brightness stands for on the absolute scale
Meant ==
    CASE call.b.tag = "Full" -> call.max
      [] call.b.tag = "Off" -> U32_ZERO
      [] OTHER -> call.b.v

\* C7 as stated: the conversion to a percentage and back is lossless for every
\* max > 0 and every Absolute(a) with a <= max, and for Full and Off.
C7_RoundTripLossless == RoundTripCase => BackToAbsolute = Meant

\* C7 as amended: the round trip never overshoots; it is exact for Off and for
\* Absolute(0); for Absolute(a) it loses at most max/100 + 1 when max * 100 fits
\* in 32 bits and is exact for a = max then; for Full it is exact when
\* 100 <= max and max * 100 fits in 32 bits.
C7_RoundTripNeverOvershoots ==
    RoundTripCase =>
        /\ u32_le(BackToAbsolute, Meant)
        /\ Meant = U32_ZERO => BackToAbsolute = U32_ZERO
        /\ (call.b.tag = "Absolute" /\ u32_le(call.max, MulSafeMax)) =>
              /\ u32_le(u32_sub(Meant, BackToAbsolute),
                        checked_add(u32_div(call.max, U32(100)), U32(1)).value)
              /\ call.b.v = call.max => BackToAbsolute = call.max
        /\ (call.b = Full /\ u32_le(U32(100), call.max) /\ u32_le(call.max, MulSafeMax)) =>
              BackToAbsolute = call.max

\* a lossy round trip: Absolute(72) against 255 comes back as 71
C7_Witness ==
    /\ RoundTripCase
    /\ call.b = Absolute(U32(72))
    /\ call.max = U32(255)
    /\ BackToAbsolute = U32(71)

\* C9: to_percent never crashes: for every variant and every max, max = 0
\* included, it returns a value or signals an error.
C9_ToPercentNeverCrashes == ToPercentDone => ~ret.panic

----------------------------------------------------------------------------
(* colors.rs: Color, a triple <<red, green, blue>> of u8 *)

U8_MAX == 255

U16_MAX == 65535

U8 == 0..U8_MAX

\* the value a u16 operation leaves when the exact result is x (wrapping build)
wrap16(x) == x % (U16_MAX + 1)

\* `as u8` on a u16: truncation to the low byte
as_u8(x) == x % (U8_MAX + 1)

\* x >> n on a u16
shr(x, n) == x \div (2 ^ n)

\* u16::saturating_mul, u16::saturating_sub, u8::saturating_add
u16_saturating_mul(a, b) == IF a * b > U16_MAX THEN U16_MAX ELSE a * b

u16_saturating_sub(a, b) == IF a < b THEN 0 ELSE a - b

u8_saturating_add(a, b) == IF a + b > U8_MAX THEN U8_MAX ELSE a + b

Color(r, g, b) == <<r, g, b>>

from_rgb(r, g, b) == Color(r, g, b)

red(c) == c[1]

green(c) == c[2]

blue(c) == c[3]

\* hue / 43 and (hue % 43) * 6 of from_hsv and from_hsl
hue_region(hue) == hue \div 43

\* the fractional part taken against a 42-wide sector
hue_fpart_42(hue) == (hue % 42) * 6

hue_fpart(hue) == (hue % 43) * 6

\* the exact results of the unchecked u16 operations of from_hsv, in order
hsv_exact(hue, saturation, value) ==
    LET f == hue_fpart(hue)
        v == value
        s == saturation
        e1 == 255 - s
        e2 == v * wrap16(e1)
        e3 == s * f
        e4 == 255 - shr(wrap16(e3), 8)
        e5 == v * wrap16(e4)
        e6 == 255 - f
        e7 == s * wrap16(e6)
        e8 == 255 - shr(wrap16(e7), 8)
        e9 == v * wrap16(e8)
    IN  <<e1, e2, e3, e4, e5, e6, e7, e8, e9>>

\* Color::from_hsv: the set of outcomes. An unchecked operation that leaves the
\* u16 range (or fpart leaving the u8 range) panics in a checked build and wraps
\* in an unchecked one.
from_hsv(hue, saturation, value) ==
    LET region == hue_region(hue)
        e == hsv_exact(hue, saturation, value)
        p == as_u8(shr(wrap16(e[2]), 8))
        q == as_u8(shr(wrap16(e[5]), 8))
        t == as_u8(shr(wrap16(e[9]), 8))
        overflow == \/ hue_fpart(hue) > U8_MAX
                    \/ \E i \in 1..Len(e) : e[i] < 0 \/ e[i] > U16_MAX
        color == CASE region = 0 -> Color(value, t, p)
                   [] region = 1 -> Color(q, value, p)
                   [] region = 2 -> Color(p, value, t)
                   [] region = 3 -> Color(p, q, value)
                   [] region = 4 -> Color(t, p, value)
                   [] OTHER -> Color(value, p, q)
    IN  IF saturation = 0
        THEN {[panic |-> FALSE, overflow |-> FALSE, color |-> Color(value, value, value)]}
        ELSE {[panic |-> FALSE, overflow |-> overflow, color |-> color]}
             \cup (IF overflow
                   THEN {[panic |-> TRUE, overflow |-> TRUE, color |-> Color(0, 0, 0)]}
                   ELSE {})

\* Color::from_hsl: the set of outcomes (255 - l and 255 - f never leave the range)
from_hsl(hue, saturation, lightness) ==
    LET region == hue_region(hue)
        f == hue_fpart(hue)
        l == lightness
        s == saturation
        chroma == IF saturation < 128
                  THEN shr(u16_saturating_mul(s, l), 7)
                  ELSE shr(u16_saturating_mul(s, 255 - l), 7)
        m == as_u8(u16_saturating_sub(l, shr(chroma, 1)))
        c == u8_saturating_add(as_u8(chroma), m)
        x1 == u8_saturating_add(as_u8(shr(u16_saturating_mul(chroma, f), 8)), m)
        x2 == u8_saturating_add(as_u8(shr(u16_saturating_mul(chroma, 255 - f), 8)), m)
        color == CASE region = 0 -> Color(c, x1, m)
                   [] region = 1 -> Color(x2, c, m)
                   [] region = 2 -> Color(m, c, x1)
                   [] region = 3 -> Color(m, x2, c)
                   [] region = 4 -> Color(x1, m, c)
                   [] OTHER -> Color(c, m, x2)
    IN  IF saturation = 0
        THEN {[panic |-> FALSE, overflow |-> FALSE,
               color |-> Color(lightness, lightness, lightness)]}
        ELSE {[panic |-> FALSE, overflow |-> FALSE, color |-> color]}

----------------------------------------------------------------------------
(* the colour conversions applied to inputs drawn at Init *)

\* the saturations tried: grey, the smallest, both sides of the chroma branch
\* at 128, and full
Saturations == {0, 1, 64, 127, 128, 129, 200, 255}

NoColor == [panic |-> FALSE, overflow |-> FALSE, color |-> Color(0, 0, 0)]

InitColor ==
    /\ kind = AllFiles
    /\ data = NoData
    /\ handles = {}
    /\ last = NoLast
    /\ call \in [fn : {"from_hsv", "from_hsl"}, pc : {"call"},
                 hue : U8, saturation : Saturations, x : U8]
    /\ ret = NoColor

CallFromHsv ==
    /\ call.pc = "call"
    /\ call.fn = "from_hsv"
    /\ ret' \in from_hsv(call.hue, call.saturation, call.x)
    /\ call' = [call EXCEPT !.pc = "done"]
    /\ UNCHANGED <<kind, data, handles, last>>

CallFromHsl ==
    /\ call.pc = "call"
    /\ call.fn = "from_hsl"
    /\ ret' \in from_hsl(call.hue, call.saturation, call.x)
    /\ call' = [call EXCEPT !.pc = "done"]
    /\ UNCHANGED <<kind, data, handles, last>>

NextColor == CallFromHsv \/ CallFromHsl

SpecColor == InitColor /\ [][NextColor]_vars

FromHsvDone == call.pc = "done" /\ call.fn = "from_hsv"

FromHslDone == call.pc = "done" /\ call.fn = "from_hsl"

\* the test vectors of colors.rs
HsvVectors ==
    {<<0, 0, 0, Color(0, 0, 0)>>, <<0, 0, 255, Color(255, 255, 255)>>,
     <<0, 255, 255, Color(255, 0, 0)>>, <<86, 255, 255, Color(0, 255, 0)>>,
     <<172, 255, 255, Color(0, 0, 255)>>, <<43, 255, 255, Color(254, 255, 0)>>,
     <<129, 255, 255, Color(0, 254, 255)>>, <<215, 255, 255, Color(255, 0, 254)>>,
     <<0, 0, 192, Color(192, 192, 192)>>, <<0, 0, 128, Color(128, 128, 128)>>,
     <<0, 255, 128, Color(128, 0, 0)>>, <<43, 255, 128, Color(127, 128, 0)>>,
     <<86, 255, 128, Color(0, 128, 0)>>, <<215, 255, 128, Color(128, 0, 127)>>,
     <<128, 255, 128, Color(0, 128, 126)>>, <<172, 255, 128, Color(0, 0, 128)>>}

HslVectors ==
    {<<0, 0, 0, Color(0, 0, 0)>>, <<0, 0, 255, Color(255, 255, 255)>>,
     <<255, 0, 255, Color(255, 255, 255)>>, <<255, 255, 255, Color(255, 255, 255)>>,
     <<0, 0, 127, Color(127, 127, 127)>>, <<0, 255, 127, Color(255, 0, 0)>>,
     <<21, 255, 127, Color(255, 125, 0)>>, <<43, 255, 127, Color(254, 255, 0)>>,
     <<64, 255, 127, Color(128, 255, 0)>>, <<128, 255, 127, Color(0, 255, 251)>>,
     <<193, 255, 127, Color(125, 0, 255)>>, <<21, 127, 127, Color(190, 126, 64)>>,
     <<43, 127, 127, Color(189, 190, 64)>>, <<64, 127, 127, Color(127, 190, 64)>>,
     <<128, 127, 127, Color(64, 190, 188)>>, <<193, 127, 127, Color(126, 64, 190)>>}

\* the model reproduces test_hsv_to_rgb and test_hsl_to_rgb
TestVectorsHold ==
    /\ \A t \in HsvVectors : from_hsv(t[1], t[2], t[3]) =
            {[panic |-> FALSE, overflow |-> FALSE, color |-> t[4]]}
    /\ \A t \in HslVectors : from_hsl(t[1], t[2], t[3]) =
            {[panic |-> FALSE, overflow |-> FALSE, color |-> t[4]]}

----------------------------------------------------------------------------
(* claims about the colour conversions, under SpecColor *)

Min(a, b) == IF a < b THEN a ELSE b

Max(a, b) == IF a > b THEN a ELSE b

\* the components the claim gives, in the channel order of the hue sector
HslClaimed(hue, saturation, lightness) ==
    LET fpart == hue_fpart(hue)
        chroma == IF saturation < 128
                  THEN shr(Min(saturation * lightness, U16_MAX), 7)
                  ELSE shr(Min(saturation * (255 - lightness), U16_MAX), 7)
        m == Max(0, lightness - shr(chroma, 1))
        c == Min(255, chroma + m)
        x1 == Min(255, shr(chroma * fpart, 8) + m)
        x2 == Min(255, shr(chroma * (255 - fpart), 8) + m)
        region == hue_region(hue)
    IN  CASE region = 0 -> Color(c, x1, m)
          [] region = 1 -> Color(x2, c, m)
          [] region = 2 -> Color(m, c, x1)
          [] region = 3 -> Color(m, x2, c)
          [] region = 4 -> Color(x1, m, c)
          [] OTHER -> Color(c, m, x2)

\* C6: in from_hsl, for every hue, saturation > 0 and lightness, no step wraps
\* at the 8-bit boundary: the components are min(255, chroma + m),
\* min(255, ((chroma*fpart) >> 8) + m) and min(255, ((chroma*(255-fpart)) >> 8) + m)
\* with m = max(0, lightness - (chroma >> 1)), also when chroma exceeds 255.
C6_HslNoWrap ==
    (FromHslDone /\ call.saturation > 0) =>
        /\ ~ret.panic
        /\ ret.color = HslClaimed(call.hue, call.saturation, call.x)

\* C8: from_hsv at full saturation yields (v,0,0), (0,v,0), (0,0,v) at hues 0, 86
\* and 172 for every v; at saturation 0 it yields (v,v,v) for every hue; and no
\* 16-bit intermediate exceeds 65535 for any input.
C8_HsvPrimaries ==
    FromHsvDone =>
        /\ ~ret.panic
        /\ ~ret.overflow
        /\ (call.saturation = 255 /\ call.hue = 0) => ret.color = Color(call.x, 0, 0)
        /\ (call.saturation = 255 /\ call.hue = 86) => ret.color = Color(0, call.x, 0)
        /\ (call.saturation = 255 /\ call.hue = 172) => ret.color = Color(0, 0, call.x)
        /\ call.saturation = 0 => ret.color = Color(call.x, call.x, call.x)

\* pure green at value 200
C8_Witness ==
    /\ FromHsvDone
    /\ call.hue = 86
    /\ call.saturation = 255
    /\ call.x = 200
    /\ ret.color = Color(0, 200, 0)

----------------------------------------------------------------------------
(* lib.rs: the file helpers, SysfsLed and SysfsRgbLed *)

\* what the environment does to the file operations on one device directory
\* during one call: nothing, reads fail, opening for writing fails, or the
\* write of the (few) bytes fails after the file was opened and truncated
NoFault == [mode |-> "ok"]

Failures == {[mode |-> "read"], [mode |-> "open"], [mode |-> "write"]}

Faults == {NoFault} \cup Failures

\* the environments of one call on several directories: the directories in
\* bad fail in the same way, the others work
Envs ==
    {[p \in Paths |-> NoFault]}
        \cup {[p \in Paths |-> IF p \in bad THEN f ELSE NoFault] :
                 bad \in (SUBSET Paths) \ {{}}, f \in Failures}

IoError == [kind |-> "Io"]

ParseIntError == [kind |-> "ParseInt"]

InvalidDevicePath(path) == [kind |-> "InvalidDevicePath", path |-> path]

NoError == [kind |-> "none"]

SysfsLed(path) == [device_path |-> path]

\* Path::is_file on dir.join(file)
is_file(dir, file) == dir \in DOMAIN kind /\ kind[dir][file] = "file"

\* Path::exists on dir.join(file)
exists(dir, file) == dir \in DOMAIN kind /\ kind[dir][file] # "missing"

\* require_device_files asking only whether the entries exist
require_device_files_exists(dir) ==
    IF \E i \in 1..Len(RequiredFiles) : ~exists(dir, RequiredFiles[i])
    THEN [ok |-> FALSE, err |-> InvalidDevicePath(dir)]
    ELSE [ok |-> TRUE, err |-> NoError]

\* require_device_files: bail at the first required file that is no regular file
require_device_files(dir) ==
    IF \E i \in 1..Len(RequiredFiles) : ~is_file(dir, RequiredFiles[i])
    THEN [ok |-> FALSE, err |-> InvalidDevicePath(dir)]
    ELSE [ok |-> TRUE, err |-> NoError]

\* SysfsLed::from_path
from_path(path) ==
    LET r == require_device_files(path)
    IN  IF ~r.ok THEN [ok |-> FALSE, err |-> r.err, led |-> {}]
        ELSE [ok |-> TRUE, err |-> NoError, led |-> {SysfsLed(path)}]

\* SysfsLed::new
new(name) == from_path(join(SYSFS_LED_CLASS, name))

\* sysfs_read_file: the trimmed content, or an I/O error
sysfs_read_file(d, device_path, name, fault) ==
    IF kind[device_path][name] # "file" \/ fault.mode = "read"
    THEN [ok |-> FALSE, err |-> IoError, text |-> <<>>]
    ELSE [ok |-> TRUE, err |-> NoError, text |-> trim(d[device_path][name])]

\* a write that leaves the characters after the written ones in place
sysfs_write_file_no_truncate(d, device_path, name, value, fault) ==
    IF kind[device_path][name] # "file" \/ fault.mode = "open"
    THEN [ok |-> FALSE, err |-> IoError, data |-> d]
    ELSE LET old == d[device_path][name]
             rest == SubSeq(old, Len(value) + 1, Len(old))
         IN  IF fault.mode = "write"
             THEN [ok |-> FALSE, err |-> IoError, data |-> d]
             ELSE [ok |-> TRUE, err |-> NoError,
                   data |-> [d EXCEPT ![device_path][name] = value \o rest]]

\* sysfs_write_file: open an existing file for writing with truncation, then
\* write_all; d is the content of all files before, data the content after
sysfs_write_file(d, device_path, name, value, fault) ==
    IF kind[device_path][name] # "file" \/ fault.mode = "open"
    THEN [ok |-> FALSE, err |-> IoError, data |-> d]
    ELSE IF fault.mode = "write"
    THEN [ok |-> FALSE, err |-> IoError, data |-> [d EXCEPT ![device_path][name] = <<>>]]
    ELSE [ok |-> TRUE, err |-> NoError, data |-> [d EXCEPT ![device_path][name] = value]]

\* one attempted write, as the log of an operation records it
Attempt(device_path, name, value, w) ==
    [path |-> device_path, name |-> name, value |-> value, ok |-> w.ok]

\* the outcome w of the write of value to an attribute, with its log entry
Written(device_path, name, value, w) ==
    [ok |-> w.ok, err |-> w.err, data |-> w.data,
     log |-> <<Attempt(device_path, name, value, w)>>]

\* an operation that returned err before writing anything
Failed(err, d) == [ok |-> FALSE, err |-> err, data |-> d, log |-> <<>>]

\* `.parse::<u32>()?` on the text read
max_of_text(n) ==
    IF ~n.ok THEN [ok |-> FALSE, err |-> ParseIntError, value |-> U32_ZERO]
    ELSE [ok |-> TRUE, err |-> NoError, value |-> n.value]

\* `self.sysfs_read_file("max_brightness")?` and the parse of its text
max_of_read(r) ==
    IF ~r.ok THEN [ok |-> FALSE, err |-> r.err, value |-> U32_ZERO]
    ELSE max_of_text(parse_u32(r.text))

\* SysfsLed::max_brightness
max_brightness(d, led, fault) ==
    max_of_read(sysfs_read_file(d, led.device_path, "max_brightness", fault))

\* set_brightness after `self.max_brightness()` gave m: return its error, or
\* format the absolute value and write it
set_brightness_with(d, led, brightness, fault, m) ==
    IF ~m.ok THEN Failed(m.err, d)
    ELSE Written(led.device_path, "brightness",
                 format_u32(to_absolute(brightness, m.value)),
                 sysfs_write_file(d, led.device_path, "brightness",
                                  format_u32(to_absolute(brightness, m.value)), fault))

\* <SysfsLed as Led>::set_brightness
set_brightness(d, led, brightness, fault) ==
    set_brightness_with(d, led, brightness, fault, max_brightness(d, led, fault))

\* SysfsRgbLed::from_leds
from_leds(r, g, b) == [red |-> r, green |-> g, blue |-> b]

\* `a?; b?; c?` on the three maxima: the first error, or nothing written yet
read_maxima(d, a, b, c) ==
    IF ~a.ok THEN Failed(a.err, d)
    ELSE IF ~b.ok THEN Failed(b.err, d)
    ELSE IF ~c.ok THEN Failed(c.err, d)
    ELSE [ok |-> TRUE, err |-> NoError, data |-> d, log |-> <<>>]

\* `?` after the statements so far (acc): s is the next statement run on acc.data
and_then(acc, s) == IF ~acc.ok THEN acc ELSE [s EXCEPT !.log = acc.log \o s.log]

\* the next statement run whatever became of the ones before
and_also(acc, s) ==
    [ok |-> acc.ok /\ s.ok, err |-> IF ~acc.ok THEN acc.err ELSE s.err,
     data |-> s.data, log |-> acc.log \o s.log]

\* `self.<led>.set_brightness(Brightness::Absolute(c as u32))?`
set_channel(acc, led, c, fault) ==
    and_then(acc, set_brightness(acc.data, led, Absolute(U32(c)), fault))

set_channel_no_stop(acc, led, c, fault) ==
    IF acc.ok \/ acc.log # <<>>
    THEN and_also(acc, set_brightness(acc.data, led, Absolute(U32(c)), fault))
    ELSE acc

\* the component rescaled from 0..255 to the channel's 0..max
set_channel_rescaled(acc, led, c, fault) ==
    and_then(acc,
             set_brightness(acc.data, led,
                            Absolute(u32_div(saturating_mul(U32(c),
                                max_brightness(acc.data, led, fault).value), U32(255))),
                            fault))

\* set_color that goes on to the next channel after a failed write
set_color_no_stop(d, rgb, color, env) ==
    set_channel_no_stop(
        set_channel_no_stop(
            set_channel_no_stop(
                read_maxima(d, max_brightness(d, rgb.red, env[rgb.red.device_path]),
                            max_brightness(d, rgb.green, env[rgb.green.device_path]),
                            max_brightness(d, rgb.blue, env[rgb.blue.device_path])),
                rgb.red, red(color), env[rgb.red.device_path]),
            rgb.green, green(color), env[rgb.green.device_path]),
        rgb.blue, blue(color), env[rgb.blue.device_path])

\* set_color that rescales each component to the channel's maximum
set_color_rescaled(d, rgb, color, env) ==
    set_channel_rescaled(
        set_channel_rescaled(
            set_channel_rescaled(
                read_maxima(d, max_brightness(d, rgb.red, env[rgb.red.device_path]),
                            max_brightness(d, rgb.green, env[rgb.green.device_path]),
                            max_brightness(d, rgb.blue, env[rgb.blue.device_path])),
                rgb.red, red(color), env[rgb.red.device_path]),
            rgb.green, green(color), env[rgb.green.device_path]),
        rgb.blue, blue(color), env[rgb.blue.device_path])

\* set_color without the reads up front: each maximum is first read by the
\* set_brightness of its own channel
set_color_lazy_maxima(d, rgb, color, env) ==
    set_channel(
        set_channel(
            set_channel(
                [ok |-> TRUE, err |-> NoError, data |-> d, log |-> <<>>],
                rgb.red, red(color), env[rgb.red.device_path]),
            rgb.green, green(color), env[rgb.green.device_path]),
        rgb.blue, blue(color), env[rgb.blue.device_path])

\* <SysfsRgbLed as RgbLed>::set_color: the three maxima are read first (and
\* discarded), then red, green and blue are set in turn, each `?` returning
\* at once on an error
set_color(d, rgb, color, env) ==
    set_channel(
        set_channel(
            set_channel(
                read_maxima(d, max_brightness(d, rgb.red, env[rgb.red.device_path]),
                            max_brightness(d, rgb.green, env[rgb.green.device_path]),
                            max_brightness(d, rgb.blue, env[rgb.blue.device_path])),
                rgb.red, red(color), env[rgb.red.device_path]),
            rgb.green, green(color), env[rgb.green.device_path]),
        rgb.blue, blue(color), env[rgb.blue.device_path])

----------------------------------------------------------------------------
(* triggers.rs: TriggerNone *)

NoneText == <<"n", "o", "n", "e">>

\* Result::and: the argument has been evaluated before the call
result_and(a, b) == IF a.ok THEN b ELSE a

\* <SysfsLed as TriggerNone>::none
led_none(d, led, fault) ==
    Written(led.device_path, "trigger", NoneText,
            sysfs_write_file(d, led.device_path, "trigger", NoneText, fault))

\* the write of the next channel, made whatever the earlier results, and its
\* result combined by Result::and
and_none(acc, led, fault) ==
    [result_and(acc, led_none(acc.data, led, fault))
        EXCEPT !.data = led_none(acc.data, led, fault).data,
               !.log = acc.log \o led_none(acc.data, led, fault).log]

\* <SysfsRgbLed as TriggerNone>::none: the receiver and both arguments of the
\* two `and` calls are evaluated in source order, whatever the earlier results
rgb_none(d, rgb, env) ==
    and_none(and_none(led_none(d, rgb.red, env[rgb.red.device_path]),
                      rgb.green, env[rgb.green.device_path]),
             rgb.blue, env[rgb.blue.device_path])

----------------------------------------------------------------------------
(* the devices in use: three LED directories as the kernel (or the test       *)
(* harness of lib.rs) lays them out, one SysfsLed on each and a SysfsRgbLed   *)
(* over the three                                                            *)

\* max_brightness contents: the test harness's "128" on red, the kernel's
\* LED_FULL "255\n" on green, a dimmer "64\n" on blue
MaxText(p) ==
    CASE p = RedPath -> <<"1", "2", "8">>
      [] p = GreenPath -> <<"2", "5", "5", "\n">>
      [] OTHER -> <<"6", "4", "\n">>

\* the brightness values of test_set_brightness
DeviceBrightness ==
    {Full, Percent(U32(50)), Percent(U32(150)), Absolute(U32(0)), Absolute(U32(72)),
     Absolute(U32(129)), Off}

BLACK == Color(0, 0, 0)

WHITE == Color(255, 255, 255)

\* black, white and one colour with three different mid-range components
Colors == {BLACK, WHITE, Color(72, 129, 64)}

Rgb == from_leds(SysfsLed(RedPath), SysfsLed(GreenPath), SysfsLed(BluePath))

Init ==
    /\ kind = AllFiles
    /\ data = [p \in Paths |->
                 [a \in Attrs |->
                     CASE a = "brightness" -> <<"0">>
                       [] a = "max_brightness" -> MaxText(p)
                       [] OTHER -> <<"[", "n", "o", "n", "e", "]">>]]
    /\ handles = {SysfsLed(p) : p \in Paths}
    /\ last = NoLast
    /\ call = NoCall
    /\ ret = NoRet

SetBrightness ==
    \E led \in handles, b \in DeviceBrightness, fault \in Faults :
        LET r == set_brightness(data, led, b, fault)
        IN  /\ data' = r.data
            /\ last' = [op |-> "set_brightness", led |-> led, b |-> b,
                        ok |-> r.ok, err |-> r.err, log |-> r.log]
            /\ UNCHANGED <<kind, handles, call, ret>>

SetColor ==
    \E color \in Colors, env \in Envs :
        LET r == set_color(data, Rgb, color, env)
        IN  /\ data' = r.data
            /\ last' = [op |-> "set_color", color |-> color,
                        ok |-> r.ok, err |-> r.err, log |-> r.log]
            /\ UNCHANGED <<kind, handles, call, ret>>

LedNone ==
    \E led \in handles, fault \in Faults :
        LET r == led_none(data, led, fault)
        IN  /\ data' = r.data
            /\ last' = [op |-> "none", led |-> led,
                        ok |-> r.ok, err |-> r.err, log |-> r.log]
            /\ UNCHANGED <<kind, handles, call, ret>>

RgbNone ==
    \E env \in Envs :
        LET r == rgb_none(data, Rgb, env)
        IN  /\ data' = r.data
            /\ last' = [op |-> "rgb_none",
                        ok |-> r.ok, err |-> r.err, log |-> r.log]
            /\ UNCHANGED <<kind, handles, call, ret>>

Next == SetBrightness \/ SetColor

Spec == Init /\ [][Next]_vars

NextTrigger == LedNone \/ RgbNone

SpecTrigger == Init /\ [][NextTrigger]_vars

----------------------------------------------------------------------------
(* opening devices over directories of any layout *)

\* a directory outside the LED class, with none of the files
OtherPath == <<"/", "tmp", "led">>

OpenPaths == Paths \cup {OtherPath}

OpenNames == Names \cup {OtherPath}

InitOpen ==
    /\ kind \in [Paths -> [Attrs -> Kinds]]
    /\ kind[BluePath] = AllFiles[BluePath]
    /\ data = NoData
    /\ handles = {}
    /\ last = NoLast
    /\ call = NoCall
    /\ ret = NoRet

FromPath ==
    \E path \in OpenPaths :
        LET r == from_path(path)
        IN  /\ handles' = handles \cup r.led
            /\ last' = [op |-> "from_path", path |-> path, ok |-> r.ok, err |-> r.err]
            /\ UNCHANGED <<kind, data, call, ret>>

New ==
    \E name \in OpenNames :
        LET r == new(name)
        IN  /\ handles' = handles \cup r.led
            /\ last' = [op |-> "new", path |-> join(SYSFS_LED_CLASS, name),
                        ok |-> r.ok, err |-> r.err]
            /\ UNCHANGED <<kind, data, call, ret>>

NextOpen == FromPath \/ New

SpecOpen == InitOpen /\ [][NextOpen]_vars

\* the directory holds the three required names as regular files
Complete(dir) ==
    /\ dir \in DOMAIN kind
    /\ kind[dir]["brightness"] = "file"
    /\ kind[dir]["max_brightness"] = "file"
    /\ kind[dir]["trigger"] = "file"

\* C4: from_path(dir) succeeds if and only if dir contains brightness,
\* max_brightness and trigger as regular files; otherwise it returns
\* InvalidDevicePath carrying dir and creates no handle, so that every handle
\* in existence was validated when it was constructed.
C4_FromPathValidates ==
    /\ last.op \in {"from_path", "new"} =>
          /\ last.ok <=> Complete(last.path)
          /\ last.ok => SysfsLed(last.path) \in handles
          /\ ~last.ok => /\ last.err = InvalidDevicePath(last.path)
                         /\ SysfsLed(last.path) \notin handles
    /\ \A h \in handles : Complete(h.device_path)

\* a directory whose trigger is missing was refused, after another was opened
C4_Witness ==
    /\ last.op = "from_path"
    /\ ~last.ok
    /\ last.path = RedPath
    /\ kind[RedPath]["trigger"] = "missing"
    /\ kind[RedPath]["brightness"] = "file"
    /\ kind[RedPath]["max_brightness"] = "file"
    /\ last.err = InvalidDevicePath(RedPath)
    /\ handles = {SysfsLed(GreenPath), SysfsLed(BluePath)}

----------------------------------------------------------------------------
(* claims about the devices, under Spec and SpecTrigger *)

\* the channels in the order set_color and none go through them
Order == <<RedPath, GreenPath, BluePath>>

Component(color, i) == color[i]

\* the number a max_brightness attribute holds
MaxOf(d, p) == parse_u32(trim(d[p]["max_brightness"])).value

\* the texts test_set_brightness expects against a maximum of 128
Expected128(b) ==
    CASE b = Full -> <<"1", "2", "8">>
      [] b = Percent(U32(50)) -> <<"6", "4">>
      [] b = Percent(U32(150)) -> <<"1", "2", "8">>
      [] b = Absolute(U32(0)) -> <<"0">>
      [] b = Absolute(U32(72)) -> <<"7", "2">>
      [] b = Absolute(U32(129)) -> <<"1", "2", "8">>
      [] b = Off -> <<"0">>

\* C1: with max_brightness fixed at M, after every successful set_brightness(b)
\* in any sequence of calls the brightness attribute is exactly the decimal text
\* of to_absolute(b, M), nothing of an earlier value left over; against 128
\* the test's values give 128, 64, 128, 0, 72, 128, 0.
C1_SetBrightnessText ==
    (last.op = "set_brightness" /\ last.ok) =>
        LET p == last.led.device_path
        IN  /\ data[p]["brightness"] = format_u32(to_absolute(last.b, MaxOf(data, p)))
            /\ p = RedPath => data[p]["brightness"] = Expected128(last.b)
            /\ last.log = <<[path |-> p, name |-> "brightness",
                             value |-> data[p]["brightness"], ok |-> TRUE]>>

\* Percent(50) on the 128 device reads back as 64
C1_Witness ==
    /\ last.op = "set_brightness"
    /\ last.ok
    /\ last.led = SysfsLed(RedPath)
    /\ last.b = Percent(U32(50))
    /\ data[RedPath]["brightness"] = <<"6", "4">>

\* C2: none on the composite device writes "none" to the trigger of red, green,
\* blue in turn and stops at the first failure: after a failed trigger write no
\* write is attempted on a later channel.
C2_RgbNoneStopsAtFailure ==
    last.op = "rgb_none" =>
        \A i \in 1..Len(last.log) : \A j \in 1..(i - 1) : last.log[j].ok

\* the decimal text of min(component, maximum) for channel i
Clamped(d, color, i) ==
    LET m == MaxOf(d, Order[i])
        c == Component(color, i)
    IN  format_u32(IF fits_int(m) /\ as_int(m) < c THEN m ELSE U32(c))

\* C5: set_color goes through red, green, blue and stops at the first failing
\* write without rollback: it returns that error, the channels before keep
\* their new brightness, the channels after are unchanged and not written.
C5_SetColorFailFast ==
    [][(last'.op = "set_color" /\ last'.log # <<>>) =>
          LET k == Len(last'.log)
          IN  /\ k <= 3
              /\ \A i \in 1..k :
                    /\ last'.log[i].path = Order[i]
                    /\ last'.log[i].name = "brightness"
              /\ \A i \in 1..(k - 1) : last'.log[i].ok
              /\ \A i \in 1..k :
                    last'.log[i].ok =>
                        /\ last'.log[i].value = Clamped(data, last'.color, i)
                        /\ data'[Order[i]]["brightness"] = last'.log[i].value
              /\ last'.ok <=> (k = 3 /\ last'.log[k].ok)
              /\ ~last'.ok => last'.err = IoError
              /\ \A i \in (k + 1)..3 :
                    data'[Order[i]]["brightness"] = data[Order[i]]["brightness"]]_vars

\* white was being set, green's write failed: red has its new value, green
\* was truncated by the failed write, blue still has an older value
C5_Witness ==
    /\ last.op = "set_color"
    /\ last.color = WHITE
    /\ ~last.ok
    /\ Len(last.log) = 2
    /\ last.log[1].ok
    /\ ~last.log[2].ok
    /\ data[RedPath]["brightness"] = <<"1", "2", "8">>
    /\ data[BluePath]["brightness"] = <<"3", "2">>

\* C10: after a successful set_color each channel's brightness is the decimal
\* of min(the colour's component, the channel's own max_brightness): no
\* rescaling, channels with different maxima clamp independently.
C10_SetColorClamps ==
    (last.op = "set_color" /\ last.ok) =>
        \A i \in 1..3 : data[Order[i]]["brightness"] = Clamped(data, last.color, i)

\* (72, 129, 64) against the maxima 128, 255, 64 is stored unscaled
C10_Witness ==
    /\ last.op = "set_color"
    /\ last.ok
    /\ last.color = Color(72, 129, 64)
    /\ data[RedPath]["brightness"] = <<"7", "2">>
    /\ data[GreenPath]["brightness"] = <<"1", "2", "9">>
    /\ data[BluePath]["brightness"] = <<"6", "4">>

\* a text that is a decimal integer: one or more digits and nothing else
IsDecimal(text) == text # <<>> /\ \A i \in 1..Len(text) : IsDigit(text[i])

\* the stored brightness of the channel in p is a decimal integer no greater
\* than the channel's max_brightness
WithinMax(d, p) ==
    /\ IsDecimal(d[p]["brightness"])
    /\ parse_u32(d[p]["brightness"]).ok
    /\ u32_le(parse_u32(d[p]["brightness"]).value, MaxOf(d, p))

\* C11: with fixed maxima and brightness starting within them, after any
\* sequence of set_brightness and set_color calls, successful or failed, every
\* channel's stored brightness is a decimal integer <= its max_brightness.
C11_BrightnessWithinMax == \A p \in Paths : WithinMax(data, p)

----------------------------------------------------------------------------
(* devices whose max_brightness may hold something that is not a u32 *)

\* contents str::parse::<u32>() rejects after the trim: nothing, a sign it
\* does not take, and 2^32
BadMaxTexts ==
    {<<"\n">>, <<"-", "1">>, <<"4", "2", "9", "4", "9", "6", "7", "2", "9", "6">>}

FrameBrightness == {Absolute(U32(72))}

FrameColors == {WHITE}

InitFrame ==
    /\ kind = AllFiles
    /\ \E bad \in SUBSET Paths, t \in BadMaxTexts :
           data = [p \in Paths |->
                     [a \in Attrs |->
                         CASE a = "brightness" -> <<"0">>
                           [] a = "max_brightness" -> IF p \in bad THEN t ELSE MaxText(p)
                           [] OTHER -> <<"[", "n", "o", "n", "e", "]">>]]
    /\ handles = {SysfsLed(p) : p \in Paths}
    /\ last = NoLast
    /\ call = NoCall
    /\ ret = NoRet

FrameSetBrightness ==
    \E led \in handles, b \in FrameBrightness, fault \in Faults :
        LET r == set_brightness(data, led, b, fault)
        IN  /\ data' = r.data
            /\ last' = [op |-> "set_brightness", led |-> led, fault |-> fault,
                        ok |-> r.ok, err |-> r.err, log |-> r.log]
            /\ UNCHANGED <<kind, handles, call, ret>>

FrameSetColor ==
    \E color \in FrameColors, env \in Envs :
        LET r == set_color(data, Rgb, color, env)
        IN  /\ data' = r.data
            /\ last' = [op |-> "set_color", env |-> env,
                        ok |-> r.ok, err |-> r.err, log |-> r.log]
            /\ UNCHANGED <<kind, handles, call, ret>>

NextFrame == FrameSetBrightness \/ FrameSetColor

SpecFrame == InitFrame /\ [][NextFrame]_vars

\* what reading the maximum of the channel in p must fail with: an I/O error
\* when the attribute cannot be read, a parse error when its text is no u32
MaxErr(d, p, fault) ==
    IF kind[p]["max_brightness"] # "file" \/ fault.mode = "read" THEN IoError
    ELSE IF d[p]["max_brightness"] \in BadMaxTexts THEN ParseIntError
    ELSE NoError

\* the first channel, in the order red, green, blue, whose maximum fails
FirstBad(d, env) ==
    CHOOSE i \in 1..3 :
        /\ MaxErr(d, Order[i], env[Order[i]]) # NoError
        /\ \A j \in 1..(i - 1) : MaxErr(d, Order[j], env[Order[j]]) = NoError

\* the call returned err and wrote no brightness attribute
WroteNothing(err) ==
    /\ ~last'.ok
    /\ last'.err = err
    /\ last'.log = <<>>
    /\ \A p \in Paths : data'[p]["brightness"] = data[p]["brightness"]

\* C12: when the max_brightness of the device (set_brightness) or of any of
\* the three channels (set_color) cannot be read or is no u32 during the call,
\* the call returns that I/O or parse error and writes no brightness attribute
\* of any channel, also when the failing channel is blue.
C12_BadMaxWritesNothing ==
    [][/\ (/\ last'.op = "set_brightness"
           /\ MaxErr(data, last'.led.device_path, last'.fault) # NoError)
          => WroteNothing(MaxErr(data, last'.led.device_path, last'.fault))
       /\ (/\ last'.op = "set_color"
           /\ \E i \in 1..3 : MaxErr(data, Order[i], last'.env[Order[i]]) # NoError)
          => WroteNothing(MaxErr(data, Order[FirstBad(data, last'.env)],
                                 last'.env[Order[FirstBad(data, last'.env)]]))]_vars

\* red was set to 72 before; blue's maximum is "-1" and a set_color to white
\* with every file accessible returned the parse error, leaving red at 72 and
\* green at 0
C12_Witness ==
    /\ last.op = "set_color"
    /\ \A p \in Paths : last.env[p] = NoFault
    /\ data[BluePath]["max_brightness"] = <<"-", "1">>
    /\ data[RedPath]["max_brightness"] = MaxText(RedPath)
    /\ data[GreenPath]["max_brightness"] = MaxText(GreenPath)
    /\ ~last.ok
    /\ last.err = ParseIntError
    /\ last.log = <<>>
    /\ data[RedPath]["brightness"] = <<"7", "2">>
    /\ data[GreenPath]["brightness"] = <<"0">>

====
